---------------------------- MODULE Spec2Model ----------------------------
(***************************************************************************)
(* A model of main.py: the reverse-proxy relay in front of the Vertex AI   *)
(* express endpoint.  The state is the module-level state of main.py       *)
(* (PROXY_API_KEY, key_rotator, key_lock, project_id_cache) and, for every *)
(* in-flight inbound call, the locals of its handler coroutine and the     *)
(* position it is suspended at.  Every action is one run of a coroutine    *)
(* from one suspension point (an await that can yield to the event loop)   *)
(* to the next.                                                            *)
(***************************************************************************)
EXTENDS Integers, Sequences, FiniteSets, TLC

(***************************************************************************)
(* Bounds of the model.                                                    *)
(***************************************************************************)
\* Inbound calls that can be in flight at the same time.
MaxCalls == 2
\* Inbound calls accepted over one run of the process.
MaxArrivals == 3
\* Configured credentials (len(VERTEX_EXPRESS_KEYS)).
NumKeys == 2
\* Lines an upstream streamed response can carry.
MaxLines == 2

Calls == 1..MaxCalls

\* Python's None, for the values that are strings or None.
None == "None"

(***************************************************************************)
(* Configuration (main.py 15-20).  Credentials are 1..NumKeys in           *)
(* configured order; NumKeys + 1 is a credential that is not configured,   *)
(* which only a frontend caller can bring.                                 *)
(***************************************************************************)
VERTEX_EXPRESS_KEYS == [i \in 1..NumKeys |-> i]
Credentials == 1..(NumKeys + 1)
\* The values PROXY_API_KEY can have after os.environ.get.
ProxySecrets == {None, "", "S"}
\* The values a caller can send as key or x-goog-api-key (None: absent).
CallerKeys == {None, "S", "wrong"}

\* Python truthiness of an optional string (if PROXY_API_KEY:).
Truthy(s) == s # None /\ s # ""

(***************************************************************************)
(* The upstream service.  The project a credential belongs to is a fact of *)
(* the upstream service, the same at every probe of that credential.       *)
(***************************************************************************)
UpstreamProject(key) == 10 * key


(***************************************************************************)
(* Python dicts are functions with a finite domain of string keys.         *)
(***************************************************************************)
EmptyDict == [k \in {} |-> <<>>]
\* d[k] = v
Put(d, k, v) == [x \in (DOMAIN d) \cup {k} |-> IF x = k THEN v ELSE d[x]]
\* del d[k]
Del(d, k) == [x \in (DOMAIN d) \ {k} |-> d[x]]

(***************************************************************************)
(* Model paths.  A path is the sequence of the fragments whose             *)
(* concatenation is the string; the model names and the operation names    *)
(* the code searches for are fragments of their own, so that x in path   *)
(* and path.replace(x, y) are a search and a replacement of fragments.     *)
(***************************************************************************)
LEGACY_IMAGE_MODEL == "gemini-2.0-flash-exp-image-generation"
IMAGE_MODEL == "gemini-2.5-flash-image-preview"
STREAM_OPERATION == "streamGenerateContent"

\* Python frag in path on strings.
Contains(path, frag) == \E i \in DOMAIN path : path[i] = frag
\* Python path.replace(old, new): every occurrence.
Replace(path, old, new) ==
    [i \in DOMAIN path |-> IF path[i] = old THEN new ELSE path[i]]

(***************************************************************************)
(* JSON values of a request body.  A value is [t |-> its Python type,      *)
(* v |-> its content]; "null" stands for every value that is not of the    *)
(* type the code expects at that place.                                    *)
(***************************************************************************)
\* Upper bound on the length of a request's contents list.
MaxContents == 2

GenerationConfigKeys ==
    {"thinkingConfig", "responseMimeType", "responseModalities", "temperature"}
\* The value a caller gives a generationConfig field (a list of atoms).
CallerValue(k) == IF k = "responseModalities" THEN <<"AUDIO">> ELSE <<k>>
GenerationConfigs ==
    {[t |-> "null", v |-> EmptyDict]} \cup
    {[t |-> "dict", v |-> [k \in ks |-> CallerValue(k)]] :
        ks \in SUBSET GenerationConfigKeys}

\* An element of contents: an object with or without a role, a number, or
\* a string that contains the text "role".
ContentElements ==
    { [t |-> "dict", v |-> [k \in {"parts"} |-> "p"]],
      [t |-> "dict", v |-> [k \in {"role", "parts"} |->
                               IF k = "role" THEN "model" ELSE "p"]],
      [t |-> "dict", v |-> [k \in {"role", "parts"} |->
                               IF k = "role" THEN "user" ELSE "p"]],
      [t |-> "num", v |-> EmptyDict],
      [t |-> "str_role", v |-> EmptyDict] }
SeqsUpTo(S, n) == UNION {[1..m -> S] : m \in 0..n}
ContentsValues ==
    {[t |-> "null", v |-> <<>>]} \cup
    {[t |-> "list", v |-> s] : s \in SeqsUpTo(ContentElements, MaxContents)}

SafetyEntry(category, threshold) ==
    [category |-> category, threshold |-> threshold]
CallerSafetySettings ==
    [t |-> "list", v |-> <<SafetyEntry("HARM_CATEGORY_HARASSMENT", "BLOCK_LOW_AND_ABOVE")>>]
\* main.py 117-150
SAFETY_SETTINGS ==
    [t |-> "list", v |->
      << SafetyEntry("HARM_CATEGORY_HATE_SPEECH", "BLOCK_NONE"),
         SafetyEntry("HARM_CATEGORY_DANGEROUS_CONTENT", "BLOCK_NONE"),
         SafetyEntry("HARM_CATEGORY_SEXUALLY_EXPLICIT", "BLOCK_NONE"),
         SafetyEntry("HARM_CATEGORY_HARASSMENT", "BLOCK_NONE"),
         SafetyEntry("HARM_CATEGORY_IMAGE_HATE", "BLOCK_NONE"),
         SafetyEntry("HARM_CATEGORY_IMAGE_DANGEROUS_CONTENT", "BLOCK_NONE"),
         SafetyEntry("HARM_CATEGORY_IMAGE_HARASSMENT", "BLOCK_NONE"),
         SafetyEntry("HARM_CATEGORY_IMAGE_SEXUALLY_EXPLICIT", "BLOCK_NONE") >>]

\* The JSON objects a request body can hold.
RequestObject(gcs, cts) ==
    { [k \in ks |-> CASE k = "generationConfig" -> gc
                      [] k = "contents" -> ct
                      [] k = "safetySettings" -> CallerSafetySettings
                      [] OTHER -> [t |-> "list", v |-> <<>>]] :
        ks \in SUBSET {"generationConfig", "contents", "safetySettings", "tools"},
        gc \in gcs, ct \in cts }

(***************************************************************************)
(* The bytes of a body: whether they decode as text, whether the text is   *)
(* JSON, how the JSON text is laid out (json.dumps writes its own layout,  *)
(* "py"), and the value the text denotes.                                  *)
(***************************************************************************)
Bytes(enc, syn, fmt, t, val) ==
    [enc |-> enc, syn |-> syn, fmt |-> fmt, t |-> t, val |-> val]
UndecodableBody == Bytes("bad", "invalid", "raw", "none", EmptyDict)
InvalidJsonBody == Bytes("utf8", "invalid", "raw", "none", EmptyDict)
\* A JSON text whose value is not an object: a list, a string, a number, null.
NonObjectBodies ==
    {Bytes("utf8", "json", "compact", t, EmptyDict) : t \in {"list", "str", "num", "null"}}
ObjectBodies(gcs, cts) ==
    {Bytes("utf8", "json", fmt, "dict", d) :
        fmt \in {"compact", "py"}, d \in RequestObject(gcs, cts)}

(***************************************************************************)
(* The request transformation of call_model (main.py 92-153).  Each step   *)
(* returns [exc |-> the exception it raises, "" for none, val |-> the      *)
(* request_json it leaves].                                                *)
(***************************************************************************)
Step(exc, val) == [exc |-> exc, val |-> val]

\* json.loads(raw_request_body) on bytes (main.py 96): bytes that are not
\* text raise UnicodeDecodeError, text that is not JSON raises
\* json.JSONDecodeError.
JsonLoads(raw) ==
    IF raw.enc # "utf8" THEN "UnicodeDecodeError"
    ELSE IF raw.syn # "json" THEN "JSONDecodeError"
    ELSE ""

\* json.dumps(request_json).encode('utf-8') (main.py 151)
JsonDumps(t, val) == Bytes("utf8", "json", "py", t, val)

\* main.py 97-98
AliasRewrite(model_path) ==
    IF Contains(model_path, LEGACY_IMAGE_MODEL)
    THEN Replace(model_path, LEGACY_IMAGE_MODEL, IMAGE_MODEL)
    ELSE model_path

\* main.py 100-101
EnsureGenerationConfig(d) ==
    IF "generationConfig" \notin DOMAIN d
    THEN Put(d, "generationConfig", [t |-> "dict", v |-> EmptyDict])
    ELSE d

\* An image-model rule that leaves responseMimeType in place.
ImageModelConfig_KeepMime(model_path, d) ==
    IF ~Contains(model_path, IMAGE_MODEL) THEN Step("", d)
    ELSE IF d["generationConfig"].t # "dict" THEN Step("TypeError", d)
    ELSE LET gc == d["generationConfig"].v
             g1 == IF "thinkingConfig" \in DOMAIN gc
                   THEN Del(gc, "thinkingConfig") ELSE gc
             g3 == Put(g1, "responseModalities", <<"TEXT", "IMAGE">>)
         IN  Step("", Put(d, "generationConfig", [t |-> "dict", v |-> g3]))

\* main.py 104-109, for a request_json that has a generationConfig.  A
\* generationConfig that is no dict raises TypeError at line 105, 106 or 109.
ImageModelConfig(model_path, d) ==
    IF ~Contains(model_path, IMAGE_MODEL) THEN Step("", d)
    ELSE IF d["generationConfig"].t # "dict" THEN Step("TypeError", d)
    ELSE LET gc == d["generationConfig"].v
             g1 == IF "thinkingConfig" \in DOMAIN gc
                   THEN Del(gc, "thinkingConfig") ELSE gc
             g2 == IF "responseMimeType" \in DOMAIN g1
                   THEN Del(g1, "responseMimeType") ELSE g1
             g3 == Put(g2, "responseModalities", <<"TEXT", "IMAGE">>)
         IN  Step("", Put(d, "generationConfig", [t |-> "dict", v |-> g3]))

\* main.py 114-115 for one element of contents: "role" not in content
\* raises TypeError for a number, is False for a string containing "role".
DefaultRole(content) ==
    IF content.t = "dict" /\ "role" \notin DOMAIN content.v
    THEN [content EXCEPT !.v = Put(content.v, "role", "user")]
    ELSE content

\* main.py 112-115: a contents that is not iterable, or an element that is a
\* number, raises TypeError.
DefaultRoles(d) ==
    IF "contents" \notin DOMAIN d THEN Step("", d)
    ELSE IF d["contents"].t # "list" THEN Step("TypeError", d)
    ELSE IF \E i \in DOMAIN d["contents"].v : d["contents"].v[i].t = "num"
         THEN Step("TypeError", d)
    ELSE Step("", Put(d, "contents",
                      [t |-> "list",
                       v |-> [i \in DOMAIN d["contents"].v |->
                                 DefaultRole(d["contents"].v[i])]]))

\* A rule that sets safetySettings only when the caller sent none.
SetSafetySettings_IfAbsent(d) ==
    IF "safetySettings" \in DOMAIN d THEN d ELSE Put(d, "safetySettings", SAFETY_SETTINGS)
\* main.py 117-150
SetSafetySettings(d) == Put(d, "safetySettings", SAFETY_SETTINGS)

\* The exceptions the try block of main.py 95-153 catches.
Caught(exc) == exc = "JSONDecodeError"

\* main.py 92-153: [exc |-> the exception that leaves the block, "" for
\* none, model_path, body |-> request_body_to_send].
Transformed(exc, model_path, body) ==
    [exc |-> exc, model_path |-> model_path, body |-> body]
TransformRequest(model_path, raw) ==
    LET loaded == JsonLoads(raw) IN
    IF loaded # ""
    THEN Transformed(IF Caught(loaded) THEN "" ELSE loaded, model_path, raw)
    ELSE LET path == AliasRewrite(model_path) IN
         \* a request_json that is no dict raises TypeError (or
         \* AttributeError) at line 100, 101, 105 or 117
         IF raw.t # "dict" THEN Transformed("TypeError", path, raw)
         ELSE LET s1 == ImageModelConfig(path, EnsureGenerationConfig(raw.val))
                  s2 == IF s1.exc = "" THEN DefaultRoles(s1.val) ELSE s1
              IN  IF s2.exc # "" THEN Transformed(s2.exc, path, raw)
                  ELSE Transformed("", path,
                                   JsonDumps("dict", SetSafetySettings(s2.val)))

(***************************************************************************)
(* JSON values of an upstream response body (main.py 203-210).             *)
(***************************************************************************)
\* Upper bound on the length of a candidate's parts list.
MaxParts == 2
\* Upper bound on the length of a response's candidates list.
MaxCandidates == 1

\* A part is [t |-> its Python type, n |-> its length (its value, for a
\* number)]: "", "x", None, {}, {"text": "hi"}, [] and 0.
Part(t, n) == [t |-> t, n |-> n]
Parts == {Part("str", 0), Part("str", 1), Part("null", 0), Part("dict", 0),
          Part("dict", 1), Part("list", 0), Part("num", 0)}
\* A test that drops None only.
PartTruthy_NotNone(part) == part.t # "null"
\* Python truthiness of a part (if part).
PartTruthy(part) == part.t # "null" /\ part.n # 0

PartsValues ==
    {[t |-> "null", v |-> <<>>]} \cup
    {[t |-> "list", v |-> s] : s \in SeqsUpTo(Parts, MaxParts)}
\* A content: null, or an object with a role, with or without parts.
ContentValues ==
    {[t |-> "null", v |-> EmptyDict]} \cup
    {[t |-> "dict", v |-> [k \in {"role"} |-> [t |-> "str", v |-> <<>>]]]} \cup
    {[t |-> "dict", v |-> [k \in {"parts", "role"} |->
                              IF k = "parts" THEN pv ELSE [t |-> "str", v |-> <<>>]]] :
        pv \in PartsValues}
\* A candidate: a number, or an object with a finishReason, with or without
\* a content.
Candidates(cvs) ==
    {[t |-> "num", v |-> EmptyDict]} \cup
    {[t |-> "dict", v |-> [k \in {"finishReason"} |-> [t |-> "str", v |-> EmptyDict]]]} \cup
    {[t |-> "dict", v |-> [k \in {"content", "finishReason"} |->
                              IF k = "content" THEN cv ELSE [t |-> "str", v |-> EmptyDict]]] :
        cv \in cvs}
CandidatesValues(cvs) ==
    {[t |-> "null", v |-> <<>>]} \cup
    {[t |-> "list", v |-> s] : s \in SeqsUpTo(Candidates(cvs), MaxCandidates)}
ResponseObject(cvs) ==
    { [k \in ks |-> IF k = "candidates" THEN cands
                    ELSE [t |-> "dict", v |-> <<>>]] :
        ks \in SUBSET {"candidates", "usageMetadata"},
        cands \in CandidatesValues(cvs) }
ResponseBodies(cvs) ==
    {Bytes("utf8", "json", fmt, "dict", d) :
        fmt \in {"compact", "py"}, d \in ResponseObject(cvs)}
    \cup {Bytes("utf8", "json", "compact", t, EmptyDict) : t \in {"list", "num"}}
    \cup {InvalidJsonBody}

(***************************************************************************)
(* The response transformation of call_model (main.py 203-210).            *)
(***************************************************************************)
\* main.py 208: the parts that are truthy, in their order.
RECURSIVE FilterParts(_)
FilterParts(parts) ==
    IF parts = <<>> THEN <<>>
    ELSE IF PartTruthy(Head(parts))
         THEN <<Head(parts)>> \o FilterParts(Tail(parts))
         ELSE FilterParts(Tail(parts))

\* main.py 207: whether the candidate is one whose parts are filtered; a
\* candidate that is a number, or a content that is no dict, raises TypeError.
CandidateRaises(candidate) ==
    \/ candidate.t # "dict"
    \/ /\ "content" \in DOMAIN candidate.v
       /\ \/ candidate.v["content"].t # "dict"
          \/ /\ "parts" \in DOMAIN candidate.v["content"].v
             /\ candidate.v["content"].v["parts"].t # "list"
HasParts(candidate) ==
    /\ "content" \in DOMAIN candidate.v
    /\ "parts" \in DOMAIN candidate.v["content"].v

\* main.py 207-208 for one candidate
CleanCandidate(candidate) ==
    IF HasParts(candidate)
    THEN LET content == candidate.v["content"]
             parts == content.v["parts"]
         IN  [candidate EXCEPT !.v = Put(candidate.v, "content",
                 [content EXCEPT !.v = Put(content.v, "parts",
                     [parts EXCEPT !.v = FilterParts(parts.v)])])]
    ELSE candidate

\* main.py 203-210: [exc, body |-> modified_response_data]
Cleaned(exc, body) == [exc |-> exc, body |-> body]
CleanResponse(raw) ==
    LET loaded == JsonLoads(raw) IN
    IF loaded # "" THEN Cleaned(loaded, raw)
    \* 'candidates' in response_json raises TypeError for a number and is
    \* False for a list without that string
    ELSE IF raw.t = "num" THEN Cleaned("TypeError", raw)
    ELSE IF raw.t # "dict" THEN Cleaned("", JsonDumps(raw.t, raw.val))
    ELSE IF "candidates" \notin DOMAIN raw.val
         THEN Cleaned("", JsonDumps("dict", raw.val))
    ELSE LET cands == raw.val["candidates"] IN
         IF cands.t # "list" THEN Cleaned("TypeError", raw)
         ELSE IF \E i \in DOMAIN cands.v : CandidateRaises(cands.v[i])
              THEN Cleaned("TypeError", raw)
         ELSE Cleaned("", JsonDumps("dict",
                  Put(raw.val, "candidates",
                      [cands EXCEPT !.v = [i \in DOMAIN cands.v |->
                                              CleanCandidate(cands.v[i])]])))

(***************************************************************************)
(* The probe of get_project_id (main.py 52-70) and what upstream can       *)
(* answer.  An error message is the sequence of its fragments, a fragment  *)
(* being literal text or a project identifier.                             *)
(***************************************************************************)
Frag(lit) == [lit |-> lit, id |-> 0]
IdFrag(project) == [lit |-> "", id |-> project]

\* The message upstream sends for an unknown model, which names the project.
NotFoundMessage(key) ==
    << Frag("Publisher Model "), Frag("projects/"), IdFrag(UpstreamProject(key)),
       Frag("/locations/"), Frag("global/publishers/google/models/gemini-2.6-pro not found") >>
ProbeMessages(key) ==
    { NotFoundMessage(key),
      <<Frag("Not Found")>>,
      <<Frag("projects/"), Frag("/locations/")>> }

\* A probe response body: JSON or not; if JSON, whether its error member is
\* an object (has .get); and the message of the error, empty when it has none.
ProbeBody(json, shape, message) ==
    [json |-> json, shape |-> shape, message |-> message]
ProbeBodies(key) ==
    {ProbeBody(FALSE, "none", <<>>), ProbeBody(TRUE, "error_is_string", <<>>),
     ProbeBody(TRUE, "dict", <<>>)}
    \cup {ProbeBody(TRUE, "dict", m) : m \in ProbeMessages(key)}

\* A probe outcome: a response with a status and a body, or no response
\* (client.post raises httpx.TransportError).
ProbeOutcome(kind, status, body) == [kind |-> kind, status |-> status, body |-> body]
ProbeStatuses == {200, 204, 403, 404}
ProbeOutcomes(key) ==
    {ProbeOutcome("response", st, b) : st \in ProbeStatuses, b \in ProbeBodies(key)}
    \cup {ProbeOutcome("transport_error", 0, ProbeBody(FALSE, "none", <<>>))}
\* The outcomes the runs with several calls in flight draw from.
FewProbeOutcomes(key) ==
    { ProbeOutcome("response", 404, ProbeBody(TRUE, "dict", NotFoundMessage(key))),
      ProbeOutcome("response", 404, ProbeBody(TRUE, "dict", <<Frag("Not Found")>>)),
      ProbeOutcome("response", 200, ProbeBody(TRUE, "dict", <<>>)) }

\* httpx Response.is_success, which raise_for_status tests (main.py 59)
IsSuccess(status) == status \in 200..299

\* re.search(r"projects/([^/]+)/locations/", error_message) (main.py 63):
\* the identifier matched, 0 for no match.
SearchProject(message) ==
    IF \E i \in 1..(Len(message) - 2) :
          /\ message[i].lit = "projects/"
          /\ message[i + 1].id # 0
          /\ message[i + 2].lit = "/locations/"
    THEN message[(CHOOSE i \in 1..(Len(message) - 2) :
                    /\ message[i].lit = "projects/"
                    /\ message[i + 1].id # 0
                    /\ message[i + 2].lit = "/locations/") + 1].id
    ELSE 0

\* What get_project_id does with the probe's outcome (main.py 56-70):
\* [exc |-> the exception raised, "" for none, detail |-> the detail of the
\* HTTPException, project_id |-> the identifier returned].
Resolved(exc, detail, project_id) ==
    [exc |-> exc, detail |-> detail, project_id |-> project_id]
NoBodyText == ProbeBody(FALSE, "none", <<>>)
ResolveProbe(outcome) ==
    IF outcome.kind # "response"
    THEN Resolved("TransportError", "TransportError", 0)
    ELSE IF IsSuccess(outcome.status)
    THEN Resolved("HTTPException", "Could not extract project ID from any key.", 0)
    ELSE IF outcome.status # 404
    THEN Resolved("HTTPException", "Failed to extract project ID: <body>", 0)
    ELSE IF ~outcome.body.json THEN Resolved("JSONDecodeError", "Expecting value", 0)
    ELSE IF outcome.body.shape # "dict" THEN Resolved("AttributeError", "object has no attribute get", 0)
    ELSE IF SearchProject(outcome.body.message) # 0
    THEN Resolved("", "", SearchProject(outcome.body.message))
    ELSE Resolved("HTTPException", "Failed to extract project ID: <body>", 0)

\* A lookup that never finds the key.
CacheHit_Never(cache, key) == FALSE
\* key in project_id_cache (main.py 49)
CacheHit(cache, key) == key \in DOMAIN cache
\* A lookup that returns the entry of some other key when there is one.
CacheGet_Any(cache, key) ==
    cache[CHOOSE k \in DOMAIN cache : k # key \/ DOMAIN cache = {key}]
\* project_id_cache[key] (main.py 50)
CacheGet(cache, key) == cache[key]
\* A store that rebinds the cache to a dict of the one entry.
CacheStore_Rebind(cache, key, project) == [k \in {key} |-> project]
\* project_id_cache[key] = project_id (main.py 66)
CacheStore(cache, key, project) == Put(cache, key, project)
\* A resolver that stores what it has, whether or not it found an identifier.
CacheAfter_Always(cache, key, r) == CacheStore(cache, key, r.project_id)
\* main.py 64-68: the cache after get_project_id has dealt with the probe's
\* outcome r; the store of line 66 is on the path that returns only.
CacheAfter(cache, key, r) ==
    IF r.exc = "" THEN CacheStore(cache, key, r.project_id) ELSE cache

(***************************************************************************)
(* The credential rotator (main.py 25, 249): itertools.cycle over          *)
(* VERTEX_EXPRESS_KEYS; key_rotator is the index of the element the next   *)
(* next() returns.                                                         *)
(***************************************************************************)
CycleValue(cursor) == VERTEX_EXPRESS_KEYS[cursor]
\* An iterator that stays on the last element instead of starting over.
CycleAdvance_NoWrap(cursor) ==
    IF cursor = Len(VERTEX_EXPRESS_KEYS) THEN cursor ELSE cursor + 1
CycleAdvance(cursor) == IF cursor = Len(VERTEX_EXPRESS_KEYS) THEN 1 ELSE cursor + 1

(***************************************************************************)
(* get_api_key (main.py 33-45): TRUE when the call is let in, FALSE when   *)
(* it raises HTTPException(401).                                           *)
(***************************************************************************)
\* A check that reads the header only.
GetApiKey_HeaderOnly(secret, key_query, key_header) ==
    IF Truthy(secret) THEN key_header = secret ELSE TRUE
GetApiKey(secret, key_query, key_header) ==
    IF Truthy(secret)
    THEN key_query = secret \/ key_header = secret
    ELSE TRUE

(***************************************************************************)
(* What a run draws its inputs from.                                       *)
(***************************************************************************)
Path(model, operation) == <<model, ":", operation>>
UnaryPath == Path("gemini-2.5-pro", "generateContent")
StreamPath == Path("gemini-2.5-pro", STREAM_OPERATION)
ModelPaths ==
    { UnaryPath, StreamPath,
      Path(LEGACY_IMAGE_MODEL, "generateContent"),
      Path(LEGACY_IMAGE_MODEL, STREAM_OPERATION),
      Path(IMAGE_MODEL, "generateContent"),
      <<"tuned-", LEGACY_IMAGE_MODEL, "-v2", ":", "generateContent">>,
      <<"my-", IMAGE_MODEL, ":", "generateContent">>,
      <<"gemini-2.5-pro">> }

\* {"contents": [{"parts": ...}]}
PlainBody ==
    Bytes("utf8", "json", "compact", "dict",
          [k \in {"contents"} |->
              [t |-> "list", v |-> <<[t |-> "dict", v |-> [x \in {"parts"} |-> "p"]]>>]])
\* The request bodies of the runs of whole calls.
SomeBodies ==
    {PlainBody, InvalidJsonBody, UndecodableBody,
     Bytes("utf8", "json", "compact", "list", EmptyDict)}
\* The request bodies of the runs of the request transformation alone.
AllBodies ==
    {UndecodableBody, InvalidJsonBody} \cup NonObjectBodies
    \cup ObjectBodies(GenerationConfigs, ContentsValues)

\* {"candidates": [{"content": {"parts": ["", {"text": "hi"}]}}]}
CandidateWith(parts) ==
    [t |-> "dict", v |-> [k \in {"content"} |->
        [t |-> "dict", v |-> [x \in {"parts"} |-> [t |-> "list", v |-> parts]]]]]
PlainResponseBody ==
    Bytes("utf8", "json", "compact", "dict",
          [k \in {"candidates"} |->
              [t |-> "list", v |-> <<CandidateWith(<<Part("str", 0), Part("dict", 1)>>)>>]])
ErrorResponseBody ==
    Bytes("utf8", "json", "compact", "dict",
          [k \in {"error"} |-> [t |-> "dict", v |-> <<>>]])
SomeResponseBodies ==
    {PlainResponseBody, ErrorResponseBody, InvalidJsonBody,
     Bytes("utf8", "json", "py", "dict",
           [k \in {"candidates"} |-> [t |-> "list", v |-> <<CandidateWith(<<>>)>>]])}

\* An upstream answer to the relayed request: a response (status, body or,
\* when it is streamed, lines), or none (client.send raises).
Upstream(kind, status, body, lines) ==
    [kind |-> kind, status |-> status, body |-> body, lines |-> lines]
NoBody == Bytes("none", "none", "none", "none", EmptyDict)
RelayStatuses == {200, 204, 429}
Lines == {"A", "B"}

(***************************************************************************)
(* State.                                                                  *)
(***************************************************************************)
VARIABLES
    \* module state of main.py
    PROXY_API_KEY,      \* main.py 15
    key_rotator,        \* main.py 25: the index cycle() is at
    key_lock,           \* main.py 26: the call holding the lock, 0 for none
    project_id_cache,   \* main.py 24
    \* per inbound call: where its coroutine is, and its locals
    pc,
    request,            \* endpoint, key and x-goog-api-key of the call
    express_key,        \* the credential of the call, 0 before it has one
    project_id,         \* the identifier get_project_id returned, 0 before
    sent,               \* the request sent upstream (req, main.py 169)
    upstream,           \* the upstream response (response, main.py 175)
    conn,               \* the upstream connection: "none", "open", "closed"
    nread,              \* lines read from response.aiter_lines()
    delivered,          \* chunks the stream generator has yielded
    result,             \* the response the caller gets
    \* history
    handed,             \* the credentials next(key_rotator) returned, in order
    arrivals,           \* inbound calls so far
    probes,             \* per call: probe requests issued
    relays,             \* per call: relay requests issued
    ticket,             \* per call: which next(key_rotator) call was its own
    probed,             \* per call: the outcome of its probe
    known,              \* per call: what get_project_id had returned for its
                        \* credential when its get_project_id started
    returned,           \* per credential: the identifier get_project_id returned
    writes,             \* per credential: stores into project_id_cache
    failed,             \* the credentials a get_project_id call has failed for
    \* the request transformation on its own
    t_path, t_body, t_out,
    \* the response transformation on its own
    r_body, r_out

shared == <<PROXY_API_KEY, key_rotator, key_lock, project_id_cache>>
locals == <<request, express_key, project_id>>
relay == <<sent, upstream, conn, nread, delivered>>
history == <<handed, arrivals, probes, relays, ticket, probed, known, returned, writes, failed>>
pure == <<t_path, t_body, t_out, r_body, r_out>>
vars == <<shared, pc, locals, relay, result, history, pure>>

\* An inbound call: its endpoint, its key query parameter, its x-goog-api-key
\* header and its x-vertex-express-key header (0 when it has none).
Request(endpoint, key_query, key_header, vertex_express_key) ==
    [endpoint |-> endpoint, key_query |-> key_query, key_header |-> key_header,
     vertex_express_key |-> vertex_express_key]
NoRequest == Request("none", None, None, 0)

\* A response to the caller.  stage: the step that produced it; raised: the
\* exception that left that step ("" for none); detail: the text of the
\* error; error_body: the probe body the text quotes.
Result(status, stage, raised, detail, error_body, body) ==
    [status |-> status, stage |-> stage, raised |-> raised, detail |-> detail,
     error_body |-> error_body, body |-> body]

\* How an exception leaving get_project_id or call_model reaches the caller.
\* frontend_proxy wraps every Exception (main.py 241-243); proxy lets it
\* through: an HTTPException is answered by its status and detail, any other
\* by the server's 500.
Surface(endpoint, stage, raised, detail, error_body) ==
    IF endpoint = "frontend"
    THEN Result(500, stage, raised,
                <<"Proxy error: ">> \o (IF raised = "HTTPException" THEN <<"500: ">> ELSE <<>>)
                                   \o detail,
                error_body, NoBody)
    ELSE IF raised = "HTTPException"
    THEN Result(500, stage, raised, detail, error_body, NoBody)
    ELSE Result(500, stage, raised, <<"Internal Server Error">>, NoBodyText, NoBody)

InitWith(secrets) ==
    /\ PROXY_API_KEY \in secrets
    /\ key_rotator = 1
    /\ key_lock = 0
    /\ project_id_cache = EmptyDict
    /\ pc = [c \in Calls |-> "idle"]
    /\ request = [c \in Calls |-> NoRequest]
    /\ express_key = [c \in Calls |-> 0]
    /\ project_id = [c \in Calls |-> 0]
    /\ sent = [c \in Calls |-> <<>>]
    /\ upstream = [c \in Calls |-> <<>>]
    /\ conn = [c \in Calls |-> "none"]
    /\ nread = [c \in Calls |-> 0]
    /\ delivered = [c \in Calls |-> <<>>]
    /\ result = [c \in Calls |-> <<>>]
    /\ handed = <<>>
    /\ arrivals = 0
    /\ probes = [c \in Calls |-> 0]
    /\ relays = [c \in Calls |-> 0]
    /\ ticket = [c \in Calls |-> 0]
    /\ probed = [c \in Calls |-> <<>>]
    /\ known = [c \in Calls |-> <<>>]
    /\ returned = EmptyDict
    /\ writes = [k \in Credentials |-> 0]
    /\ failed = {}

(***************************************************************************)
(* proxy (main.py 246-254) and frontend_proxy (main.py 222-243).           *)
(***************************************************************************)
\* A handler that takes a credential from the rotator before the key of the
\* call is checked.
ProxyArrive_Advancing(c, queries, headers) ==
    /\ pc[c] = "idle"
    /\ arrivals < MaxArrivals
    /\ \E key_query \in queries, key_header \in headers :
          /\ request' = [request EXCEPT ![c] = Request("proxy", key_query, key_header, 0)]
          /\ IF GetApiKey(PROXY_API_KEY, key_query, key_header)
             THEN /\ pc' = [pc EXCEPT ![c] = "lock"]
                  /\ UNCHANGED <<result, key_rotator>>
             ELSE /\ pc' = [pc EXCEPT ![c] = "done"]
                  /\ key_rotator' = CycleAdvance(key_rotator)
                  /\ result' = [result EXCEPT ![c] =
                        <<Result(401, "auth", "HTTPException",
                                 <<"Invalid or missing API Key">>, NoBodyText, NoBody)>>]
    /\ arrivals' = arrivals + 1
    /\ UNCHANGED <<PROXY_API_KEY, key_lock, project_id_cache, express_key, project_id,
                   relay, pure, handed, probes, relays, ticket, probed, known, returned,
                   writes, failed>>

\* A call to POST /v1beta/models/{model_path}: the get_api_key dependency
\* runs before the handler's body.
ProxyArrive(c, queries, headers) ==
    /\ pc[c] = "idle"
    /\ arrivals < MaxArrivals
    /\ \E key_query \in queries, key_header \in headers :
          /\ request' = [request EXCEPT ![c] = Request("proxy", key_query, key_header, 0)]
          /\ IF GetApiKey(PROXY_API_KEY, key_query, key_header)
             THEN /\ pc' = [pc EXCEPT ![c] = "lock"]
                  /\ UNCHANGED result
             ELSE /\ pc' = [pc EXCEPT ![c] = "done"]
                  /\ result' = [result EXCEPT ![c] =
                        <<Result(401, "auth", "HTTPException",
                                 <<"Invalid or missing API Key">>, NoBodyText, NoBody)>>]
    /\ arrivals' = arrivals + 1
    /\ UNCHANGED <<shared, express_key, project_id, relay, pure,
                   handed, probes, relays, ticket, probed, known, returned, writes, failed>>

\* A frontend handler that takes its credential from the rotator.
FrontendArrive_Rotating(c) ==
    /\ pc[c] = "idle"
    /\ arrivals < MaxArrivals
    /\ \E vertex_express_key \in Credentials :
          request' = [request EXCEPT ![c] = Request("frontend", None, None, vertex_express_key)]
    /\ express_key' = [express_key EXCEPT ![c] = CycleValue(key_rotator)]
    /\ key_rotator' = CycleAdvance(key_rotator)
    /\ pc' = [pc EXCEPT ![c] = "resolve"]
    /\ arrivals' = arrivals + 1
    /\ UNCHANGED <<PROXY_API_KEY, key_lock, project_id_cache, project_id, relay, result,
                   pure, handed, probes, relays, ticket, probed, known, returned, writes, failed>>

\* A call to POST /frontend/v1beta/models/{model_name}:{function_name} with
\* the header x-vertex-express-key.
FrontendArrive(c) ==
    /\ pc[c] = "idle"
    /\ arrivals < MaxArrivals
    /\ \E vertex_express_key \in Credentials :
          /\ request' = [request EXCEPT ![c] = Request("frontend", None, None, vertex_express_key)]
          /\ express_key' = [express_key EXCEPT ![c] = vertex_express_key]
    /\ pc' = [pc EXCEPT ![c] = "resolve"]
    /\ arrivals' = arrivals + 1
    /\ UNCHANGED <<shared, project_id, relay, result, pure,
                   handed, probes, relays, ticket, probed, known, returned, writes, failed>>

\* async with key_lock: entering (main.py 248)
AcquireLock(c) ==
    /\ pc[c] = "lock"
    /\ key_lock = 0
    /\ key_lock' = c
    /\ pc' = [pc EXCEPT ![c] = "locked"]
    /\ UNCHANGED <<PROXY_API_KEY, key_rotator, project_id_cache, locals, relay,
                   result, history, pure>>

\* A lock that stays with the call after the block.
ReleaseLock_Never(c) == c
\* Leaving async with key_lock (main.py 248-249): the holder of the lock
\* afterwards, 0 for none.
ReleaseLock(c) == 0

\* express_key = next(key_rotator), and leaving the async with (main.py 249)
NextKey(c) ==
    /\ pc[c] = "locked"
    /\ key_lock = c
    /\ express_key' = [express_key EXCEPT ![c] = CycleValue(key_rotator)]
    /\ key_rotator' = CycleAdvance(key_rotator)
    /\ handed' = Append(handed, CycleValue(key_rotator))
    /\ ticket' = [ticket EXCEPT ![c] = Len(handed) + 1]
    /\ key_lock' = ReleaseLock(c)
    /\ pc' = [pc EXCEPT ![c] = "resolve"]
    /\ UNCHANGED <<PROXY_API_KEY, project_id_cache, request, project_id, relay,
                   result, arrivals, probes, relays, probed, known, returned, writes, failed, pure>>

(***************************************************************************)
(* get_project_id (main.py 48-70).                                         *)
(***************************************************************************)
\* main.py 49-58: the cache lookup and, on a miss, the probe request.
GetProjectId(c) ==
    /\ pc[c] = "resolve"
    /\ known' = [known EXCEPT ![c] =
          <<IF express_key[c] \in DOMAIN returned THEN returned[express_key[c]] ELSE 0>>]
    /\ IF CacheHit(project_id_cache, express_key[c])
       THEN /\ project_id' = [project_id EXCEPT ![c] = CacheGet(project_id_cache, express_key[c])]
            /\ returned' = Put(returned, express_key[c], CacheGet(project_id_cache, express_key[c]))
            /\ pc' = [pc EXCEPT ![c] = "call_model"]
            /\ UNCHANGED probes
       ELSE /\ probes' = [probes EXCEPT ![c] = @ + 1]
            /\ pc' = [pc EXCEPT ![c] = "probe"]
            /\ UNCHANGED <<project_id, returned>>
    /\ UNCHANGED <<shared, request, express_key, relay, result,
                   handed, arrivals, relays, ticket, probed, writes, failed, pure>>

\* Where a call is after an exception has left get_project_id (main.py 68,
\* 70, or an exception of line 58 or 62): the handler is left too, the call
\* is over.
\* A resolver that starts over after a failure.
Raise_Retry == "resolve"
\* A handler that goes on to call_model after a failure.
Raise_Continue == "call_model"
Raise == "done"

\* main.py 58-70: the probe's outcome.
ProbeResponse(c, outcomes) ==
    /\ pc[c] = "probe"
    /\ \E outcome \in outcomes[express_key[c]] :
          LET r == ResolveProbe(outcome) IN
          /\ probed' = [probed EXCEPT ![c] = <<outcome>>]
          /\ project_id_cache' = CacheAfter(project_id_cache, express_key[c], r)
          /\ IF r.exc = ""
             THEN /\ writes' = [writes EXCEPT ![express_key[c]] = @ + 1]
                  /\ project_id' = [project_id EXCEPT ![c] = r.project_id]
                  /\ returned' = Put(returned, express_key[c], r.project_id)
                  /\ pc' = [pc EXCEPT ![c] = "call_model"]
                  /\ UNCHANGED <<result, failed>>
             ELSE /\ result' = [result EXCEPT ![c] =
                        <<Surface(request[c].endpoint, "resolve", r.exc, <<r.detail>>,
                                  IF r.exc = "HTTPException" /\ ~IsSuccess(outcome.status)
                                  THEN outcome.body ELSE NoBodyText)>>]
                  /\ failed' = failed \cup {express_key[c]}
                  /\ pc' = [pc EXCEPT ![c] = Raise]
                  /\ UNCHANGED <<writes, project_id, returned>>
    /\ UNCHANGED <<PROXY_API_KEY, key_rotator, key_lock, request, express_key, relay,
                   handed, arrivals, probes, relays, ticket, known, pure>>

(***************************************************************************)
(* call_model (main.py 88-219).                                            *)
(***************************************************************************)
\* main.py 155, 166-174: the request built for upstream.
BuildRequest(project, model_path, key, body) ==
    [project |-> project, model_path |-> model_path, key |-> key,
     sse |-> Contains(model_path, STREAM_OPERATION), body |-> body]

\* main.py 92-175: the body is read and transformed, and the request sent.
\* The model path is the call's path parameter; nothing reads it before.
CallModel(c, paths, bodies) ==
    /\ pc[c] = "call_model"
    /\ \E model_path \in paths, raw_request_body \in bodies :
          LET tr == TransformRequest(model_path, raw_request_body) IN
          IF tr.exc # ""
          THEN /\ result' = [result EXCEPT ![c] =
                     <<Surface(request[c].endpoint, "transform", tr.exc, <<tr.exc>>, NoBodyText)>>]
               /\ pc' = [pc EXCEPT ![c] = "done"]
               /\ UNCHANGED <<sent, relays>>
          ELSE /\ sent' = [sent EXCEPT ![c] =
                     <<BuildRequest(project_id[c], tr.model_path, express_key[c], tr.body)>>]
               /\ relays' = [relays EXCEPT ![c] = @ + 1]
               /\ pc' = [pc EXCEPT ![c] = "sent"]
               /\ UNCHANGED result
    /\ UNCHANGED <<shared, locals, upstream, conn, nread, delivered,
                   handed, arrivals, probes, ticket, probed, known, returned, writes, failed, pure>>

\* A test that takes only the 4xx and 5xx statuses for errors.
IsErrorStatus_From400(status) == status >= 400
\* main.py 177
IsErrorStatus(status) == status # 200
\* main.py 189, on the path the request was sent to
IsStreaming(req) == Contains(req.model_path, STREAM_OPERATION)
\* main.py 179-184: the response relayed for an error status.
Passthrough(status, response_data) ==
    Result(status, "passthrough", "", <<>>, NoBodyText, response_data)

\* The StreamingResponse of main.py 199, and how its stream went on.
Streamed(how) == Result(200, how, "", <<>>, NoBodyText, NoBody)

\* main.py 201-216: the unary response is read, cleaned and returned; an
\* exception of the cleaning leaves call_model.
UnaryResult(endpoint, status, response_data) ==
    LET cl == CleanResponse(response_data) IN
    IF cl.exc # ""
    THEN Surface(endpoint, "clean", cl.exc, <<cl.exc>>, NoBodyText)
    ELSE Result(status, "unary", "", <<>>, NoBodyText, cl.body)

\* main.py 175-219: the upstream response arrives.
RelayResponse(c, statuses, bodies, lineseqs) ==
    /\ pc[c] = "sent"
    /\ \/ \* client.send raises: no connection was made
          /\ upstream' = [upstream EXCEPT ![c] = <<Upstream("transport_error", 0, NoBody, <<>>)>>]
          /\ result' = [result EXCEPT ![c] =
                <<Surface(request[c].endpoint, "relay", "TransportError", <<"TransportError">>, NoBodyText)>>]
          /\ pc' = [pc EXCEPT ![c] = "done"]
          /\ UNCHANGED conn
       \/ \* main.py 177-187: an error status is relayed as it is
          \E status \in statuses, body \in bodies :
             /\ IsErrorStatus(status)
             /\ upstream' = [upstream EXCEPT ![c] = <<Upstream("response", status, body, <<>>)>>]
             /\ result' = [result EXCEPT ![c] = <<Passthrough(status, body)>>]
             /\ conn' = [conn EXCEPT ![c] = "closed"]
             /\ pc' = [pc EXCEPT ![c] = "done"]
       \/ \* main.py 189-199: the generator is made and handed to StreamingResponse
          \E status \in statuses, lines \in lineseqs :
             /\ ~IsErrorStatus(status)
             /\ IsStreaming(sent[c][1])
             /\ upstream' = [upstream EXCEPT ![c] = <<Upstream("response", status, NoBody, lines)>>]
             /\ result' = [result EXCEPT ![c] = <<Streamed("stream")>>]
             /\ conn' = [conn EXCEPT ![c] = "open"]
             /\ pc' = [pc EXCEPT ![c] = "stream"]
       \/ \* main.py 200-219: the body is read, cleaned and returned
          \E status \in statuses, body \in bodies :
             /\ ~IsErrorStatus(status)
             /\ ~IsStreaming(sent[c][1])
             /\ upstream' = [upstream EXCEPT ![c] = <<Upstream("response", status, body, <<>>)>>]
             /\ result' = [result EXCEPT ![c] =
                   <<UnaryResult(request[c].endpoint, status, body)>>]
             /\ conn' = [conn EXCEPT ![c] = "closed"]
             /\ pc' = [pc EXCEPT ![c] = "done"]
    /\ UNCHANGED <<shared, locals, sent, nread, delivered, history, pure>>

\* f"{line}\n" (main.py 194)
Chunk(line) == <<line, "\n">>
\* A generator that adds the line to the chunk it yielded before.
Yielded_Batched(chunks, line) ==
    IF chunks = <<>> THEN <<Chunk(line)>>
    ELSE [chunks EXCEPT ![Len(chunks)] = @ \o Chunk(line)]
\* yield f"{line}\n" (main.py 194): what the consumer has got after it
Yielded(chunks, line) == Append(chunks, Chunk(line))

\* The consumer of the StreamingResponse asks for the first chunk: the
\* generator starts and enters its try block (main.py 191).
StreamBegin(c) ==
    /\ pc[c] = "stream"
    /\ pc' = [pc EXCEPT ![c] = "reading"]
    /\ UNCHANGED <<shared, locals, relay, result, history, pure>>

\* main.py 192-194: a line arrives and is yielded.
StreamLine(c) ==
    /\ pc[c] = "reading"
    /\ nread[c] < Len(upstream[c][1].lines)
    /\ nread' = [nread EXCEPT ![c] = @ + 1]
    /\ delivered' = [delivered EXCEPT ![c] =
          Yielded(@, upstream[c][1].lines[nread[c] + 1])]
    /\ pc' = [pc EXCEPT ![c] = "yielded"]
    /\ UNCHANGED <<shared, locals, sent, upstream, conn, result, history, pure>>

\* The consumer asks for the next chunk.
StreamResume(c) ==
    /\ pc[c] = "yielded"
    /\ pc' = [pc EXCEPT ![c] = "reading"]
    /\ UNCHANGED <<shared, locals, relay, result, history, pure>>

\* main.py 192, 195-197: upstream has no more lines; the finally block runs.
StreamEnd(c) ==
    /\ pc[c] = "reading"
    /\ nread[c] = Len(upstream[c][1].lines)
    /\ conn' = [conn EXCEPT ![c] = "closed"]
    /\ result' = [result EXCEPT ![c] = <<Streamed("stream_end")>>]
    /\ pc' = [pc EXCEPT ![c] = "done"]
    /\ UNCHANGED <<shared, locals, sent, upstream, nread, delivered, history, pure>>

\* Whether the finally block of stream_generator (main.py 195-197) runs
\* when the generator is closed or its task cancelled at this position: it
\* does once the generator has entered the try block.
FinallyRuns(position) == position \in {"reading", "yielded"}

\* The consumer disconnects or is cancelled: the generator is closed where
\* it is suspended, or dropped without ever having been started.
StreamCancel(c) ==
    /\ pc[c] \in {"stream", "reading", "yielded"}
    /\ conn' = [conn EXCEPT ![c] = IF FinallyRuns(pc[c]) THEN "closed" ELSE @]
    /\ result' = [result EXCEPT ![c] = <<Streamed("stream_cancelled")>>]
    /\ pc' = [pc EXCEPT ![c] = "done"]
    /\ UNCHANGED <<shared, locals, sent, upstream, nread, delivered, history, pure>>

\* The call is over; its coroutine and locals are gone.
Return(c) ==
    /\ pc[c] = "done"
    /\ pc' = [pc EXCEPT ![c] = "idle"]
    /\ request' = [request EXCEPT ![c] = NoRequest]
    /\ express_key' = [express_key EXCEPT ![c] = 0]
    /\ project_id' = [project_id EXCEPT ![c] = 0]
    /\ sent' = [sent EXCEPT ![c] = <<>>]
    /\ upstream' = [upstream EXCEPT ![c] = <<>>]
    /\ conn' = [conn EXCEPT ![c] = "none"]
    /\ nread' = [nread EXCEPT ![c] = 0]
    /\ delivered' = [delivered EXCEPT ![c] = <<>>]
    /\ result' = [result EXCEPT ![c] = <<>>]
    /\ probes' = [probes EXCEPT ![c] = 0]
    /\ relays' = [relays EXCEPT ![c] = 0]
    /\ ticket' = [ticket EXCEPT ![c] = 0]
    /\ probed' = [probed EXCEPT ![c] = <<>>]
    /\ known' = [known EXCEPT ![c] = <<>>]
    /\ UNCHANGED <<shared, handed, arrivals, returned, writes, failed, pure>>

(***************************************************************************)
(* The process with several calls in flight.                               *)
(***************************************************************************)
NoClean ==
    /\ r_body = NoBody
    /\ r_out = <<>>

NoTransform ==
    /\ t_path = <<>>
    /\ t_body = NoBody
    /\ t_out = <<>>
    /\ NoClean

Init == InitWith({"S"}) /\ NoTransform

Next ==
    \E c \in Calls :
       \/ ProxyArrive(c, {None}, {None, "S"})
       \/ FrontendArrive(c)
       \/ AcquireLock(c)
       \/ NextKey(c)
       \/ GetProjectId(c)
       \/ ProbeResponse(c, [key \in Credentials |-> FewProbeOutcomes(key)])
       \/ CallModel(c, {UnaryPath, StreamPath}, {PlainBody})
       \/ RelayResponse(c, {200, 429}, {PlainResponseBody}, {<<"A">>})
       \/ StreamBegin(c)
       \/ StreamLine(c)
       \/ StreamResume(c)
       \/ StreamEnd(c)
       \/ StreamCancel(c)
       \/ Return(c)

Spec == Init /\ [][Next]_vars

(***************************************************************************)
(* The process serving one call after the other, with every input.         *)
(***************************************************************************)
InitCall == InitWith(ProxySecrets) /\ NoTransform

NextCall ==
    \E c \in {1} :
       \/ ProxyArrive(c, CallerKeys, CallerKeys)
       \/ FrontendArrive(c)
       \/ AcquireLock(c)
       \/ NextKey(c)
       \/ GetProjectId(c)
       \/ ProbeResponse(c, [key \in Credentials |-> ProbeOutcomes(key)])
       \/ CallModel(c, ModelPaths, SomeBodies)
       \/ RelayResponse(c, RelayStatuses, SomeResponseBodies, SeqsUpTo(Lines, MaxLines))
       \/ StreamBegin(c)
       \/ StreamLine(c)
       \/ StreamResume(c)
       \/ StreamEnd(c)
       \/ StreamCancel(c)
       \/ Return(c)

SpecCall == InitCall /\ [][NextCall]_vars

(***************************************************************************)
(* The request transformation on its own, on every model path and body.    *)
(***************************************************************************)
InitTransform ==
    /\ InitWith({None})
    /\ t_path \in ModelPaths
    /\ t_body \in AllBodies
    /\ t_out = <<>>
    /\ NoClean

\* main.py 92-153 on the inputs drawn
ApplyTransform ==
    /\ t_out = <<>>
    /\ t_out' = <<TransformRequest(t_path, t_body)>>
    /\ UNCHANGED <<shared, pc, locals, relay, result, history, t_path, t_body, r_body, r_out>>

NextTransform == ApplyTransform

SpecTransform == InitTransform /\ [][NextTransform]_vars

(***************************************************************************)
(* The unary branch of call_model on its own, on every response body.      *)
(***************************************************************************)
InitClean ==
    /\ InitWith({None})
    /\ t_path = <<>>
    /\ t_body = NoBody
    /\ t_out = <<>>
    /\ r_body \in ResponseBodies(ContentValues)
    /\ r_out = <<>>

\* main.py 201-216 on the body drawn, upstream having answered 200
ApplyClean ==
    /\ r_out = <<>>
    /\ \E endpoint \in {"proxy", "frontend"} :
          r_out' = <<UnaryResult(endpoint, 200, r_body)>>
    /\ UNCHANGED <<shared, pc, locals, relay, result, history, t_path, t_body, t_out, r_body>>

NextClean == ApplyClean

SpecClean == InitClean /\ [][NextClean]_vars

(***************************************************************************)
(* Properties.                                                             *)
(***************************************************************************)
\* The configured credential at position k of the cyclic repetition.
Cyclic(k) == VERTEX_EXPRESS_KEYS[((k - 1) % Len(VERTEX_EXPRESS_KEYS)) + 1]

\* C1: the credentials handed out, in the order of the locked
\* read-and-advance, are the cyclic repetition of the configured list: the
\* k-th advance returns element (k-1) mod N; every call that went through
\* the rotator holds the credential of its own advance, no two calls hold
\* the same advance, and the cursor stands right after the last advance.
C1_CyclicRotation ==
    /\ \A k \in 1..Len(handed) : handed[k] = Cyclic(k)
    /\ CycleValue(key_rotator) = Cyclic(Len(handed) + 1)
    /\ \A c \in Calls :
          ticket[c] # 0 =>
             /\ ticket[c] \in 1..Len(handed)
             /\ express_key[c] = handed[ticket[c]]
             /\ \A d \in Calls \ {c} : ticket[d] # ticket[c]

\* A full cycle and one more advance were handed out, the last of them to a
\* call that took it while another call, holding the advance before, was
\* still in flight.
C1_Witness ==
    /\ Len(handed) = Len(VERTEX_EXPRESS_KEYS) + 1
    /\ handed[Len(handed)] = VERTEX_EXPRESS_KEYS[1]
    /\ \E c, d \in Calls :
          /\ ticket[c] = Len(handed)
          /\ ticket[d] = Len(handed) - 1
          /\ pc[d] = "probe"

\* C2: a get_project_id call that starts after get_project_id has returned
\* an identifier for its credential issues no probe request and returns
\* that identifier; a call that misses the cache issues exactly one probe.
C2_CacheIdempotence ==
    \A c \in Calls :
       known[c] # <<>> =>
          /\ known[c][1] # 0 =>
                /\ probes[c] = 0
                /\ project_id[c] = known[c][1]
                /\ pc[c] # "probe"
          /\ known[c][1] = 0 => probes[c] = 1

\* A call hits the cache while another call, which missed it before the
\* identifier was stored, still waits for its probe of the same credential.
C2_Witness ==
    \E c, d \in Calls :
       /\ c # d
       /\ known[c] # <<>> /\ known[c][1] # 0
       /\ pc[c] = "sent"
       /\ pc[d] = "probe"
       /\ express_key[d] = express_key[c]

\* C3, as claimed: an entry of project_id_cache is stored at most once.
C3_WrittenOnce == \A key \in Credentials : writes[key] <= 1

\* C3, amended: an entry of project_id_cache, once stored, is never removed
\* and never changes its value; it is stored again only by a call whose
\* lookup missed the cache before the first store and whose probe was then
\* still in flight.
C3_NeverRemoved ==
    [][\A key \in DOMAIN project_id_cache :
          /\ key \in DOMAIN project_id_cache'
          /\ project_id_cache'[key] = project_id_cache[key]
          /\ writes'[key] # writes[key] =>
                \E c \in Calls :
                   /\ pc[c] = "probe" /\ pc'[c] = "call_model"
                   /\ express_key[c] = key
                   /\ known[c] = <<0>>]_vars

\* An entry has been stored twice while another credential's entry was in
\* the cache.
C3_Witness ==
    \E key \in DOMAIN project_id_cache :
       /\ writes[key] = 2
       /\ DOMAIN project_id_cache # {key}

\* C4, as claimed: whatever the probe's response, get_project_id returns an
\* identifier or raises the HTTPException with status 500, which for a
\* response with an error status carries the response's body; nothing else
\* leaves get_project_id.
C4_OnlyResolutionError ==
    \A c \in Calls :
       (probed[c] # <<>> /\ probed[c][1].kind = "response") =>
          \/ project_id[c] # 0
          \/ /\ result[c] # <<>>
             /\ result[c][1].stage = "resolve"
             /\ result[c][1].status = 500
             /\ result[c][1].raised = "HTTPException"
             /\ ~IsSuccess(probed[c][1].status) =>
                   result[c][1].error_body = probed[c][1].body

\* Whether the bytes parse as a JSON object.
ParsesAsObject(raw) == raw.enc = "utf8" /\ raw.syn = "json" /\ raw.t = "dict"

\* C5, as claimed: the request transformation never fails; a body that does
\* not parse as a JSON object is forwarded with its model path, both
\* unchanged; on a body that parses as a JSON object every rule is applied.
C5_TransformTotal ==
    t_out # <<>> =>
       LET out == t_out[1] IN
       /\ out.exc = ""
       /\ ~ParsesAsObject(t_body) => (out.model_path = t_path /\ out.body = t_body)
       /\ ParsesAsObject(t_body) =>
             /\ ~Contains(out.model_path, LEGACY_IMAGE_MODEL)
             /\ ParsesAsObject(out.body)
             /\ "generationConfig" \in DOMAIN out.body.val
             /\ out.body.val["safetySettings"] = SAFETY_SETTINGS
             /\ Contains(out.model_path, IMAGE_MODEL) =>
                   LET gc == out.body.val["generationConfig"].v IN
                   /\ "thinkingConfig" \notin DOMAIN gc
                   /\ "responseMimeType" \notin DOMAIN gc
                   /\ gc["responseModalities"] = <<"TEXT", "IMAGE">>
             /\ "contents" \in DOMAIN out.body.val =>
                   \A i \in DOMAIN out.body.val["contents"].v :
                      out.body.val["contents"].v[i].t = "dict" =>
                         "role" \in DOMAIN out.body.val["contents"].v[i].v

\* C6: on the streaming path the chunks delivered to the caller are the
\* lines received from upstream, each with its line end, in the order
\* received: every line read has been delivered as one chunk of its own
\* before the next is read, and a stream that ran to its end delivered all.
C6_StreamOrder ==
    \A c \in Calls :
       (result[c] # <<>> /\ result[c][1].stage \in {"stream", "stream_end", "stream_cancelled"}) =>
          LET lines == upstream[c][1].lines IN
          /\ nread[c] <= Len(lines)
          /\ Len(delivered[c]) = nread[c]
          /\ \A i \in 1..nread[c] : delivered[c][i] = <<lines[i], "\n">>
          /\ result[c][1].stage = "stream_end" => nread[c] = Len(lines)

\* A stream of two different lines was relayed to its end.
C6_Witness ==
    \E c \in Calls :
       /\ result[c] # <<>> /\ result[c][1].stage = "stream_end"
       /\ upstream[c][1].lines = <<"A", "B">>
       /\ delivered[c] = << <<"A", "\n">>, <<"B", "\n">> >>

\* C7, as claimed: no call ends with its upstream connection open.
C7_ConnectionReleased ==
    \A c \in Calls : pc[c] = "done" => conn[c] # "open"

\* C8: an upstream response with a status other than 200 reaches the caller
\* with that status and that body, on streaming and other model paths alike:
\* the body is not cleaned, nothing is streamed, and the call has issued the
\* one relay request.
C8_ErrorPassthrough ==
    \A c \in Calls :
       (upstream[c] # <<>> /\ upstream[c][1].kind = "response" /\ upstream[c][1].status # 200) =>
          /\ pc[c] = "done"
          /\ result[c] # <<>>
          /\ result[c][1].stage = "passthrough"
          /\ result[c][1].status = upstream[c][1].status
          /\ result[c][1].body = upstream[c][1].body
          /\ delivered[c] = <<>> /\ nread[c] = 0
          /\ relays[c] = 1
          /\ conn[c] = "closed"

\* A 429 came back on a streaming path with a body that cleaning would
\* have changed.
C8_Witness ==
    \E c \in Calls :
       /\ upstream[c] # <<>> /\ upstream[c][1].status = 429
       /\ IsStreaming(sent[c][1])
       /\ CleanResponse(upstream[c][1].body).exc = ""
       /\ CleanResponse(upstream[c][1].body).body # upstream[c][1].body
       /\ pc[c] = "done"

\* Whether the call was turned away by get_api_key.
Rejected(c) == result[c] # <<>> /\ result[c][1].stage = "auth"

\* C9: with a proxy secret configured, a call to the proxy endpoint is let
\* in if and only if its key parameter or its x-goog-api-key header equals
\* the secret, and every other call is answered 401; with no secret
\* configured every call is let in.
C9_ProxyAuth ==
    \A c \in Calls :
       request[c].endpoint = "proxy" =>
          /\ Rejected(c) => (pc[c] = "done" /\ result[c][1].status = 401)
          /\ IF PROXY_API_KEY \in {None, ""}
             THEN ~Rejected(c)
             ELSE ~Rejected(c) <=> (\/ request[c].key_query = PROXY_API_KEY
                                    \/ request[c].key_header = PROXY_API_KEY)

\* A call with the secret in its key parameter and another value in its
\* header was let in and relayed.
C9_Witness ==
    \E c \in Calls :
       /\ request[c].endpoint = "proxy"
       /\ PROXY_API_KEY = "S"
       /\ request[c].key_query = "S" /\ request[c].key_header = "wrong"
       /\ pc[c] = "sent"

\* C10: a call to the frontend endpoint never takes the rotation lock and
\* never advances the cursor; it resolves and relays with the credential of
\* its x-vertex-express-key header, so the next proxy call gets the
\* credential it would have got without it.
C10_FrontendFrame ==
    /\ [](\A c \in Calls :
            request[c].endpoint = "frontend" =>
               /\ key_lock # c /\ ticket[c] = 0
               /\ express_key[c] = request[c].vertex_express_key
               /\ project_id[c] \in {0, UpstreamProject(request[c].vertex_express_key)}
               /\ sent[c] # <<>> =>
                     /\ sent[c][1].key = request[c].vertex_express_key
                     /\ sent[c][1].project = UpstreamProject(request[c].vertex_express_key))
    /\ [][\A c \in Calls :
            (pc'[c] # pc[c] /\ "frontend" \in {request[c].endpoint, request'[c].endpoint}) =>
               UNCHANGED <<key_rotator, key_lock, handed>>]_vars

\* A frontend call relayed with a credential of the configured list while a
\* proxy call was waiting for the lock, with the cursor on another credential.
C10_Witness ==
    \E c, d \in Calls :
       /\ request[c].endpoint = "frontend" /\ pc[c] = "sent"
       /\ request[c].vertex_express_key = VERTEX_EXPRESS_KEYS[2]
       /\ request[d].endpoint = "proxy" /\ pc[d] = "lock"
       /\ key_rotator = 1

(***************************************************************************)
(* Properties of the request transformation.                               *)
(***************************************************************************)
\* A body that parses as a JSON object whose generationConfig, when it has
\* one, is an object and whose contents, when it has one, is a list of
\* objects.
WellFormedRequest(raw) ==
    /\ ParsesAsObject(raw)
    /\ "generationConfig" \in DOMAIN raw.val => raw.val["generationConfig"].t = "dict"
    /\ "contents" \in DOMAIN raw.val =>
          /\ raw.val["contents"].t = "list"
          /\ \A i \in DOMAIN raw.val["contents"].v : raw.val["contents"].v[i].t = "dict"

\* The eight categories of main.py 117-150.
HarmCategories ==
    {"HARM_CATEGORY_HATE_SPEECH", "HARM_CATEGORY_DANGEROUS_CONTENT",
     "HARM_CATEGORY_SEXUALLY_EXPLICIT", "HARM_CATEGORY_HARASSMENT",
     "HARM_CATEGORY_IMAGE_HATE", "HARM_CATEGORY_IMAGE_DANGEROUS_CONTENT",
     "HARM_CATEGORY_IMAGE_HARASSMENT", "HARM_CATEGORY_IMAGE_SEXUALLY_EXPLICIT"}

\* C11: for every body that parses as a JSON object and every model path,
\* the safetySettings of the body forwarded are the eight fixed entries, one
\* for each category, each with the threshold BLOCK_NONE, whatever
\* safetySettings the body came with; a well-formed object body is always
\* forwarded.
C11_SafetySettings ==
    (t_out # <<>> /\ ParsesAsObject(t_body)) =>
       LET out == t_out[1] IN
       /\ WellFormedRequest(t_body) => out.exc = ""
       /\ out.exc = "" =>
             /\ ParsesAsObject(out.body)
             /\ "safetySettings" \in DOMAIN out.body.val
             /\ LET ss == out.body.val["safetySettings"] IN
                /\ ss.t = "list"
                /\ Len(ss.v) = 8
                /\ {ss.v[i].category : i \in 1..8} = HarmCategories
                /\ \A i \in 1..8 : ss.v[i].threshold = "BLOCK_NONE"

\* A body that came with a safetySettings of its own, with another
\* threshold, was forwarded on a path of no image model.
C11_Witness ==
    /\ t_out # <<>>
    /\ t_path = UnaryPath
    /\ ParsesAsObject(t_body)
    /\ "safetySettings" \in DOMAIN t_body.val
    /\ t_body.val["safetySettings"] = CallerSafetySettings
    /\ CallerSafetySettings.v[1].threshold # "BLOCK_NONE"
    /\ t_out[1].exc = ""
    /\ t_out[1].body.val["safetySettings"] # CallerSafetySettings

\* Whether the model name of the path, the text before its colon, is model.
NamesModel(path, model) ==
    /\ path # <<>>
    /\ path[1] = model
    /\ Len(path) = 1 \/ path[2] = ":"

\* C12, as claimed: the model path is rewritten only when its model name is
\* the legacy image model, which is then replaced by its successor with the
\* operation kept; a path that has the legacy name as a part of a longer
\* model name is forwarded as it came.
C12_ExactAliasRewrite ==
    (t_out # <<>> /\ ParsesAsObject(t_body) /\ t_out[1].exc = "") =>
       t_out[1].model_path =
          IF NamesModel(t_path, LEGACY_IMAGE_MODEL)
          THEN <<IMAGE_MODEL>> \o Tail(t_path)
          ELSE t_path

\* The generationConfig the caller sent, the empty object when it sent none.
SentGenerationConfig(raw) ==
    IF "generationConfig" \in DOMAIN raw.val
    THEN raw.val["generationConfig"]
    ELSE [t |-> "dict", v |-> EmptyDict]

\* C13: for every JSON-object body forwarded on a model path that, as it
\* came or after the alias rewrite, has gemini-2.5-flash-image-preview in
\* it, the generationConfig forwarded has no thinkingConfig, no
\* responseMimeType and the responseModalities TEXT, IMAGE, its other fields
\* being as sent; on every other model path the generationConfig is
\* forwarded as the caller sent it; a well-formed object body is always
\* forwarded.
C13_ImageModelConfig ==
    (t_out # <<>> /\ ParsesAsObject(t_body)) =>
       LET out == t_out[1]
           image == \E i \in DOMAIN t_path :
                       t_path[i] \in {"gemini-2.5-flash-image-preview",
                                      "gemini-2.0-flash-exp-image-generation"}
           gc_in == SentGenerationConfig(t_body)
       IN
       /\ WellFormedRequest(t_body) => out.exc = ""
       /\ out.exc = "" =>
             LET gc_out == out.body.val["generationConfig"] IN
             IF image
             THEN /\ gc_out.t = "dict"
                  /\ "thinkingConfig" \notin DOMAIN gc_out.v
                  /\ "responseMimeType" \notin DOMAIN gc_out.v
                  /\ "responseModalities" \in DOMAIN gc_out.v
                  /\ gc_out.v["responseModalities"] = <<"TEXT", "IMAGE">>
                  /\ \A k \in (DOMAIN gc_in.v) \ {"thinkingConfig", "responseMimeType",
                                                  "responseModalities"} :
                        k \in DOMAIN gc_out.v /\ gc_out.v[k] = gc_in.v[k]
             ELSE gc_out = gc_in

\* A body without generationConfig was forwarded on a path rewritten from
\* the legacy model, with a generationConfig made for it.
C13_Witness ==
    /\ t_out # <<>>
    /\ t_path = Path(LEGACY_IMAGE_MODEL, "generateContent")
    /\ ParsesAsObject(t_body)
    /\ "generationConfig" \notin DOMAIN t_body.val
    /\ t_out[1].exc = ""
    /\ t_out[1].model_path = Path(IMAGE_MODEL, "generateContent")
    /\ t_out[1].body.val["generationConfig"].v["responseModalities"] = <<"TEXT", "IMAGE">>

(***************************************************************************)
(* Properties of the unary response.                                       *)
(***************************************************************************)
\* A part Python takes for false: None, and the empty string, object and
\* list (and the number 0).
Falsy(part) == part.t = "null" \/ part.n = 0

\* Whether kept is the subsequence of the parts that are not falsy, in
\* their order.
IsFiltered(parts, kept) ==
    LET stay == {i \in 1..Len(parts) : ~Falsy(parts[i])} IN
    /\ Len(kept) = Cardinality(stay)
    /\ \A i \in stay : kept[Cardinality({k \in stay : k <= i})] = parts[i]

\* A response body that parses as a JSON object whose candidates, when it
\* has them, are a list of objects, the content of each, when it has one,
\* an object, and its parts, when it has them, a list.
WellFormedResponse(raw) ==
    /\ ParsesAsObject(raw)
    /\ "candidates" \in DOMAIN raw.val =>
          /\ raw.val["candidates"].t = "list"
          /\ \A i \in DOMAIN raw.val["candidates"].v :
                LET candidate == raw.val["candidates"].v[i] IN
                /\ candidate.t = "dict"
                /\ "content" \in DOMAIN candidate.v =>
                      /\ candidate.v["content"].t = "dict"
                      /\ "parts" \in DOMAIN candidate.v["content"].v =>
                            candidate.v["content"].v["parts"].t = "list"

\* Whether candidate after is candidate before with the parts of its
\* content, when it has them, filtered and everything else as it was.
CandidateCleaned(before, after) ==
    /\ after.t = before.t
    /\ DOMAIN after.v = DOMAIN before.v
    /\ \A k \in (DOMAIN before.v) \ {"content"} : after.v[k] = before.v[k]
    /\ "content" \in DOMAIN before.v =>
          LET cb == before.v["content"]
              ca == after.v["content"]
          IN  /\ ca.t = cb.t
              /\ DOMAIN ca.v = DOMAIN cb.v
              /\ \A k \in (DOMAIN cb.v) \ {"parts"} : ca.v[k] = cb.v[k]
              /\ "parts" \in DOMAIN cb.v =>
                    /\ ca.v["parts"].t = "list"
                    /\ IsFiltered(cb.v["parts"].v, ca.v["parts"].v)

\* C14: for a unary response with status 200, the parts list returned for
\* every candidate that has a content object with a parts list is the
\* subsequence of the upstream parts that are not falsy, in their order;
\* every other field of the response is as upstream sent it, and the
\* response is returned with status 200; a well-formed response body is
\* always returned.
C14_PartFiltering ==
    r_out # <<>> =>
       LET res == r_out[1] IN
       /\ WellFormedResponse(r_body) => res.stage = "unary"
       /\ res.stage = "unary" =>
             /\ res.status = 200
             /\ res.raised = ""
             /\ res.body.enc = "utf8" /\ res.body.syn = "json"
             /\ res.body.t = r_body.t
             /\ IF r_body.t # "dict" THEN res.body.val = r_body.val
                ELSE /\ DOMAIN res.body.val = DOMAIN r_body.val
                     /\ \A k \in (DOMAIN r_body.val) \ {"candidates"} :
                           res.body.val[k] = r_body.val[k]
                     /\ "candidates" \in DOMAIN r_body.val =>
                           LET cb == r_body.val["candidates"]
                               ca == res.body.val["candidates"]
                           IN  /\ ca.t = "list" /\ cb.t = "list"
                               /\ Len(ca.v) = Len(cb.v)
                               /\ \A i \in 1..Len(cb.v) : CandidateCleaned(cb.v[i], ca.v[i])

\* A response with a usageMetadata and a candidate with a finishReason, a
\* role and the parts "" and {"text": "hi"} was returned with the one part
\* {"text": "hi"}.
C14_Witness ==
    /\ r_out # <<>>
    /\ r_out[1].stage = "unary"
    /\ DOMAIN r_body.val = {"candidates", "usageMetadata"}
    /\ r_body.val["candidates"].t = "list"
    /\ Len(r_body.val["candidates"].v) = 1
    /\ LET before == r_body.val["candidates"].v[1]
           after == r_out[1].body.val["candidates"].v[1]
       IN  /\ before.t = "dict"
           /\ DOMAIN before.v = {"content", "finishReason"}
           /\ before.v["content"].t = "dict"
           /\ DOMAIN before.v["content"].v = {"parts", "role"}
           /\ before.v["content"].v["parts"] =
                 [t |-> "list", v |-> <<Part("str", 0), Part("dict", 1)>>]
           /\ after.v["content"].v["parts"].v = <<Part("dict", 1)>>

(***************************************************************************)
(* Properties of a call's steps.                                           *)
(***************************************************************************)
\* The positions at which a call has a probe request, a relay request or a
\* stream read in flight.
InFlight == {"probe", "sent", "stream", "reading", "yielded"}

\* C15: the rotation lock is held for the read-and-advance only: a call
\* holds it exactly between entering the block and leaving it with its
\* credential, never while its probe, its relay request or its stream is in
\* flight; so a call waiting for the lock can take it whenever no call is
\* in the middle of its read-and-advance, however many are suspended in
\* resolution or relaying.
C15_LockScope ==
    /\ key_lock \in {0} \cup Calls
    /\ \A c \in Calls :
          /\ key_lock = c <=> pc[c] = "locked"
          /\ pc[c] \in InFlight => key_lock # c
          /\ (pc[c] = "lock" /\ \A d \in Calls : pc[d] # "locked") =>
                ENABLED AcquireLock(c)

\* Two calls that took consecutive credentials are both waiting for the
\* answer to their probes.
C15_Witness ==
    \E c, d \in Calls :
       /\ ticket[c] # 0
       /\ ticket[d] = ticket[c] + 1
       /\ express_key[c] # express_key[d]
       /\ pc[c] = "probe"
       /\ pc[d] = "probe"

C17_AtMostOnce ==
    /\ [](\A c \in Calls : probes[c] <= 1 /\ relays[c] <= 1)
    /\ [][\A c \in Calls :
            /\ probes'[c] <= 1 /\ relays'[c] <= 1
            /\ (express_key[c] # 0 /\ pc'[c] # "idle") =>
                  express_key'[c] = express_key[c]]_vars

\* One call is over after its resolution failed, with one probe request and
\* no relay request; another is over after its relay request failed, with
\* one of each.
C17_Witness ==
    \E c, d \in Calls :
       /\ pc[c] = "done" /\ result[c][1].stage = "resolve"
       /\ probes[c] = 1 /\ relays[c] = 0
       /\ pc[d] = "done" /\ result[d][1].stage = "relay"
       /\ probes[d] = 1 /\ relays[d] = 1

\* C18: within a call the steps come in the order credential, identifier,
\* transformation, relay: a relay request has been issued only by a call
\* that has its credential and the identifier resolved for it, and carries
\* the transformed body; a call whose resolution failed has issued no relay
\* request and is over with an error.
C18_StepOrder ==
    \A c \in Calls :
       /\ project_id[c] # 0 => (express_key[c] # 0 /\ known[c] # <<>>)
       /\ (request[c].endpoint = "proxy" /\ express_key[c] # 0) => ticket[c] # 0
       /\ relays[c] > 0 <=> sent[c] # <<>>
       /\ sent[c] # <<>> =>
             /\ express_key[c] # 0
             /\ project_id[c] # 0
             /\ sent[c][1].project = project_id[c]
             /\ ParsesAsObject(sent[c][1].body) =>
                   "safetySettings" \in DOMAIN sent[c][1].body.val
       /\ upstream[c] # <<>> => sent[c] # <<>>
       /\ (result[c] # <<>> /\ result[c][1].stage = "resolve") =>
             /\ pc[c] = "done"
             /\ result[c][1].status = 500
             /\ sent[c] = <<>> /\ relays[c] = 0 /\ upstream[c] = <<>>
             /\ project_id[c] = 0

\* A call to the proxy endpoint is over with a 500 after the probe of its
\* credential was answered 403, and no relay request went out.
C18_Witness ==
    \E c \in Calls :
       /\ request[c].endpoint = "proxy"
       /\ pc[c] = "done"
       /\ result[c][1].stage = "resolve"
       /\ probed[c] # <<>> /\ probed[c][1].status = 403
       /\ ticket[c] # 0
       /\ relays[c] = 0

\* C19: under every interleaving, the relay request of a call carries the
\* credential of that call (what next(key_rotator) returned to it for the
\* proxy endpoint, the header value for the frontend endpoint) and the
\* identifier of that credential, whether the call resolved it or found it
\* in the cache.
C19_OwnCredential ==
    \A c \in Calls :
       /\ project_id[c] # 0 => project_id[c] = UpstreamProject(express_key[c])
       /\ sent[c] # <<>> =>
             /\ sent[c][1].key = express_key[c]
             /\ sent[c][1].project = UpstreamProject(express_key[c])
             /\ request[c].endpoint = "proxy" => express_key[c] = handed[ticket[c]]
             /\ request[c].endpoint = "frontend" =>
                   express_key[c] = request[c].vertex_express_key

\* Two calls with different credentials have their relay requests out, one
\* of them with an identifier from the cache, which holds the identifiers
\* of both.
C19_Witness ==
    \E c, d \in Calls :
       /\ pc[c] = "sent" /\ pc[d] = "sent"
       /\ express_key[c] # express_key[d]
       /\ known[c] # <<>> /\ known[c][1] # 0 /\ probes[c] = 0
       /\ {express_key[c], express_key[d]} \subseteq DOMAIN project_id_cache

\* C20: a call to the proxy endpoint that is answered 401 changes nothing
\* of the cursor, the lock and the cache and issues no probe and no relay
\* request; a call that is let in advances the cursor once, at its
\* read-and-advance, and only such a step advances it, whatever becomes of
\* the call afterwards.
C20_RejectedFrame ==
    /\ [](\A c \in Calls :
            /\ Rejected(c) =>
                  /\ ticket[c] = 0 /\ express_key[c] = 0 /\ project_id[c] = 0
                  /\ probes[c] = 0 /\ relays[c] = 0 /\ sent[c] = <<>>
            /\ (request[c].endpoint = "proxy" /\ ~Rejected(c)
                  /\ pc[c] \notin {"idle", "lock", "locked"}) => ticket[c] # 0)
    /\ [][/\ \A c \in Calls :
               /\ (pc'[c] # pc[c] /\ (Rejected(c) \/ Rejected(c)')) =>
                     UNCHANGED <<key_rotator, key_lock, project_id_cache, handed>>
               /\ (ticket[c] # 0 /\ pc'[c] # "idle") => ticket'[c] = ticket[c]
          /\ IF \E c \in Calls : ticket[c] = 0 /\ ticket'[c] # 0
             THEN /\ Len(handed') = Len(handed) + 1
                  /\ key_rotator' = CycleAdvance(key_rotator)
                  /\ Cardinality({c \in Calls : ticket[c] = 0 /\ ticket'[c] # 0}) = 1
             ELSE /\ handed' = handed
                  /\ key_rotator' = key_rotator]_vars

\* One call was answered 401 while another, let in, has advanced the cursor
\* and is over with a failed resolution; the cursor has moved once.
C20_Witness ==
    \E c, d \in Calls :
       /\ Rejected(c)
       /\ request[d].endpoint = "proxy"
       /\ pc[d] = "done" /\ result[d][1].stage = "resolve"
       /\ ticket[d] = 1
       /\ Len(handed) = 1
       /\ key_rotator = 2

=============================================================================
